---------------------------- MODULE Spec2Model ----------------------------
(***************************************************************************)
(* Model of the batch tagging pipeline of zotero-AI-tagger:                *)
(*   - the completion client   (ai-service:  chatCompletion)               *)
(*   - the tag-suggestion engine (tag-engine: suggestTags, applyTags)      *)
(*   - the batch scheduler     (batch-processor: Semaphore, processBatch)  *)
(* Five specifications share the module: Spec (the batch scheduler),       *)
(* SpecChat (one chatCompletion call), SpecFallback (one                   *)
(* chatCompletionWithFallback call), SpecSuggest (one suggestTags call)    *)
(* and SpecApply (suggestTags and repeated applyTags calls on one item).   *)
(* Each leaves the variables of the other components untouched.            *)
(***************************************************************************)
EXTENDS Integers, Sequences, FiniteSets, TLC

VARIABLES
  \* ---- completion client: one chatCompletion call ----
  ccPc,          \* "idle" | "fetching" | "sleeping" | "returned" | "thrown"
  maxRetries,    \* options.maxRetries ?? 3
  attempt,       \* loop variable of the retry loop
  lastError,     \* the local lastError (NoError models null)
  requests,      \* number of fetch() calls made so far
  waits,         \* the sleep(waitMs) calls made so far, in order
  attemptError,  \* the failure the most recent attempt ended with
  raised,        \* the error thrown to the caller (NoError while none)
  lastResponse   \* what the most recent fetch() ended with (NoResponse while none)

chatVars == <<ccPc, maxRetries, attempt, lastError, requests, waits,
              attemptError, raised, lastResponse>>

VARIABLES
  \* ---- completion client: one chatCompletionWithFallback call ----
  fbPc,          \* "idle" | "first" | "fallback" | "returned" | "thrown"
  fbRequest,     \* the request argument: messages is an array of object
                 \*   references, response_format tells whether one is given
  fbHeap,        \* the message objects: reference -> [role, content]
  fbCalls,       \* the chatCompletion calls made so far, in order, each with
                 \*   the request body it builds
  fbFirstError,  \* the error caught from the first call (NoCallError while none)
  fbOutcome      \* what the wrapper resolved with or threw

fallbackVars == <<fbPc, fbRequest, fbHeap, fbCalls, fbFirstError, fbOutcome>>

VARIABLES
  \* ---- tag-suggestion engine: one suggestTags call ----
  sgPc,          \* "idle" | "calling" | "returned"
  sgInput,       \* the item, the preferences and the store as the call sees them
  sgAvailable,   \* the local availableTags
  sgSent,        \* completion requests handed to chatCompletionWithFallback
  sgRecord,      \* the TagResult returned (NoRecord while none)
  sgEnv,         \* how the vocabulary lookup and the text extraction of
                 \*   this call ended ("unused" when not reached)
  sgCompletion   \* what chatCompletionWithFallback handed back

suggestVars ==
  <<sgPc, sgInput, sgAvailable, sgSent, sgRecord, sgEnv, sgCompletion>>

VARIABLES
  \* ---- tag-suggestion engine: applyTags calls on one item ----
  apPc,          \* "idle" | "saving" (applyTags awaits item.saveTx())
  apTags,        \* the tags argument of the applyTags calls
  apItemTags,    \* the tags of the in-memory item, in order
  apStore,       \* the tags of the item as persisted
  apSaves,       \* the saveTx() calls made so far
  apCalls,       \* the applyTags calls that have ended so far
  apFirst,       \* the item and the store as the first applyTags call left them
  apRecord       \* the record of the suggestTags call made on the item

applyVars == <<apPc, apTags, apItemTags, apStore, apSaves, apCalls, apFirst,
               apRecord>>

VARIABLES
  \* ---- batch scheduler: one processBatch run ----
  bPc,           \* the returned promise: "idle" before the call, then
                 \*   "pending" | "resolved" | "rejected"
  bConfig,       \* items.length, the preferences read and whether confirmFn is given
  semaphore,     \* [limit, active, queue]: queue holds the waiting items, oldest first
  interval,      \* the local interval
  cancelled,     \* the closure variable cancelled
  requestCount,  \* the closure variable requestCount
  progress,      \* the progress object; its results field is an array reference
  arrays,        \* the heap of result arrays: reference -> sequence of records
  snapshots,     \* the objects handed to onProgress, in call order
  itPc,          \* where each processItem call stands
  itResult,      \* each call's local result
  itTagsToApply, \* each call's local tagsToApply
  tagStore,      \* item id -> tags of the in-memory item (item.addTag)
  savedStore,    \* item id -> tags persisted by item.saveTx()
  startedAtCancel, \* the items whose suggestion call had begun when cancel() was first called
  dispatch,      \* how each item reached its suggestTags call (after the pacing
                 \*   sleep or directly) and which item called it first
  callLog        \* the items that were in their pacing sleep as the latest
                 \*   suggestTags call was dispatched, and the first item whose
                 \*   own call came next (kept by SpecPacing only)

batchVars == <<bPc, bConfig, semaphore, interval, cancelled, requestCount,
               progress, arrays, snapshots, itPc, itResult, itTagsToApply,
               tagStore, savedStore, startedAtCancel, dispatch, callLog>>

\* Each component's steps leave the other components' variables alone.
ChatOnly == UNCHANGED <<fallbackVars, suggestVars, applyVars, batchVars>>
FallbackOnly == UNCHANGED <<chatVars, suggestVars, applyVars, batchVars>>
SuggestOnly == UNCHANGED <<chatVars, fallbackVars, applyVars, batchVars>>
ApplyOnly == UNCHANGED <<chatVars, fallbackVars, suggestVars, batchVars>>
BatchOnly == UNCHANGED <<chatVars, fallbackVars, suggestVars, applyVars>>

-----------------------------------------------------------------------------
(* Bounds of the model *)

MaxRetriesBound == 5
MaxRespLen == 3
MaxItems == 3
MaxApplyLen == 2
MaxApplyCalls == 2

-----------------------------------------------------------------------------
(* Completion client *)

DefaultMaxRetries == 3
BackoffBaseMs == 1000
BackoffCapMs == 30000

NoError == [kind |-> "none", attempt |-> -1, status |-> 0]
ExhaustedError == [kind |-> "exhausted", attempt |-> -1, status |-> 0]
NetworkError(a) == [kind |-> "network", attempt |-> a, status |-> 0]
ParseError(a) == [kind |-> "parse", attempt |-> a, status |-> 200]
HttpError(a, s) == [kind |-> "http", attempt |-> a, status |-> s]

NoHeader == <<>>

\* What one fetch() can end with: a rejected promise (network failure) or
\* a response with a status, a retry-after header (a string of decimal
\* digits, NoHeader when absent) and a body that parses as JSON or not.
NoResponse ==
  [type |-> "none", status |-> 0, retryAfter |-> NoHeader, bodyOk |-> FALSE]
NetworkFailure ==
  [type |-> "network", status |-> 0, retryAfter |-> NoHeader, bodyOk |-> FALSE]
Response(s, ra, ok) ==
  [type |-> "response", status |-> s, retryAfter |-> ra, bodyOk |-> ok]

FetchOutcomes ==
  {NetworkFailure}
    \cup {Response(200, NoHeader, ok) : ok \in BOOLEAN}
    \cup {Response(429, ra, TRUE) : ra \in {NoHeader, <<2>>, <<1, 0>>}}
    \cup {Response(s, NoHeader, TRUE) : s \in {400, 401, 404, 500, 503}}

\* response.ok
ResponseOk(r) == r.status >= 200 /\ r.status <= 299

RECURSIVE Pow2(_)
Pow2(n) == IF n <= 0 THEN 1 ELSE 2 * Pow2(n - 1)

Min(a, b) == IF a <= b THEN a ELSE b

\* Mutant of Backoff: the delay is not capped.
BackoffUncapped(a) == BackoffBaseMs * Pow2(a)

\* Math.min(1000 * Math.pow(2, attempt), 30000)
Backoff(a) == Min(BackoffBaseMs * Pow2(a), BackoffCapMs)

\* parseInt(retryAfter, 10) on a string of decimal digits
RECURSIVE ParseInt10(_)
ParseInt10(ds) ==
  IF ds = <<>> THEN 0
  ELSE 10 * ParseInt10(SubSeq(ds, 1, Len(ds) - 1)) + ds[Len(ds)]

\* Mutant of RateLimitWait: the header is not looked at.
RateLimitWaitBackoff(r, a) == Backoff(a)

\* retryAfter ? parseInt(retryAfter, 10) * 1000 : backoff
RateLimitWait(r, a) ==
  IF r.retryAfter # NoHeader THEN ParseInt10(r.retryAfter) * 1000
  ELSE Backoff(a)

\* Mutant of LoopGuard: one iteration too many.
LoopGuardOneMore(a, mr) == a <= mr + 1

\* The loop guard of `for (attempt = 0; attempt <= maxRetries; attempt++)`.
LoopGuard(a, mr) == a <= mr

\* The guard `attempt < maxRetries` of the 5xx branch and of the catch block.
MayRetry(a, mr) == a < mr

\* The head of the retry loop for loop variable a: the next fetch() is
\* sent, or the loop is left and `throw lastError || new Error(...)` runs.
LoopHead(a, err) ==
  /\ attempt' = a
  /\ IF LoopGuard(a, maxRetries)
       THEN /\ ccPc' = "fetching"
            /\ requests' = requests + 1
            /\ raised' = raised
       ELSE /\ ccPc' = "thrown"
            /\ requests' = requests
            /\ raised' = IF err # NoError THEN err ELSE ExhaustedError

\* await sleep(waitMs)
Sleep(ms) ==
  /\ ccPc' = "sleeping"
  /\ waits' = Append(waits, ms)
  /\ UNCHANGED <<attempt, requests, raised>>

\* The catch block: lastError = error; back off when a retry is left,
\* then the loop's attempt++.
Catch(err) ==
  /\ lastError' = err
  /\ IF MayRetry(attempt, maxRetries)
       THEN Sleep(Backoff(attempt))
       ELSE /\ waits' = waits
            /\ LoopHead(attempt + 1, err)

\* chatCompletion(request, {maxRetries: mr}) is called: the body is built
\* and the first iteration sends its request.
chatCompletion(mr) ==
  /\ ChatOnly
  /\ ccPc = "idle"
  /\ maxRetries' = mr
  /\ lastError' = NoError
  /\ attemptError' = NoError
  /\ lastResponse' = NoResponse
  /\ waits' = waits
  /\ LoopHead(0, NoError)

\* fetch() rejects: the catch block runs.
FetchFails ==
  /\ ChatOnly
  /\ ccPc = "fetching"
  /\ attemptError' = NetworkError(attempt)
  /\ lastResponse' = NetworkFailure
  /\ Catch(NetworkError(attempt))
  /\ UNCHANGED maxRetries

\* A 429 response: wait retry-after or the backoff, then `continue`.
RateLimited(r) ==
  /\ ChatOnly
  /\ ccPc = "fetching"
  /\ r.type = "response" /\ r.status = 429
  /\ attemptError' = HttpError(attempt, r.status)
  /\ lastResponse' = r
  /\ Sleep(RateLimitWait(r, attempt))
  /\ UNCHANGED <<maxRetries, lastError>>

\* A 5xx response with a retry left: back off, then `continue`.
ServerError(r) ==
  /\ ChatOnly
  /\ ccPc = "fetching"
  /\ r.type = "response" /\ r.status # 429
  /\ r.status >= 500 /\ MayRetry(attempt, maxRetries)
  /\ attemptError' = HttpError(attempt, r.status)
  /\ lastResponse' = r
  /\ Sleep(Backoff(attempt))
  /\ UNCHANGED <<maxRetries, lastError>>

\* Any other non-ok response: `throw new Error("HTTP ...")`, which is
\* thrown inside the try block and so lands in the catch block.
NotOk(r) ==
  /\ ChatOnly
  /\ ccPc = "fetching"
  /\ r.type = "response" /\ r.status # 429
  /\ ~(r.status >= 500 /\ MayRetry(attempt, maxRetries))
  /\ ~ResponseOk(r)
  /\ attemptError' = HttpError(attempt, r.status)
  /\ lastResponse' = r
  /\ Catch(HttpError(attempt, r.status))
  /\ UNCHANGED maxRetries

\* An ok response whose body parses: `return result`.
Success(r) ==
  /\ ChatOnly
  /\ ccPc = "fetching"
  /\ r.type = "response" /\ ResponseOk(r) /\ r.bodyOk
  /\ ccPc' = "returned"
  /\ attemptError' = NoError
  /\ lastResponse' = r
  /\ UNCHANGED <<maxRetries, attempt, lastError, requests, waits, raised>>

\* An ok response whose body does not parse: response.json() throws
\* inside the try block.
BodyParseFails(r) ==
  /\ ChatOnly
  /\ ccPc = "fetching"
  /\ r.type = "response" /\ ResponseOk(r) /\ ~r.bodyOk
  /\ attemptError' = ParseError(attempt)
  /\ lastResponse' = r
  /\ Catch(ParseError(attempt))
  /\ UNCHANGED maxRetries

\* The sleep ends: `continue` / end of the loop body, attempt++.
SleepDone ==
  /\ ChatOnly
  /\ ccPc = "sleeping"
  /\ LoopHead(attempt + 1, lastError)
  /\ UNCHANGED <<maxRetries, lastError, waits, attemptError, lastResponse>>

ChatInit ==
  /\ ccPc = "idle"
  /\ maxRetries = DefaultMaxRetries
  /\ attempt = 0
  /\ lastError = NoError
  /\ requests = 0
  /\ waits = <<>>
  /\ attemptError = NoError
  /\ raised = NoError
  /\ lastResponse = NoResponse

\* The client's variables while another component is being checked.
ChatParked ==
  /\ ccPc = "parked"
  /\ maxRetries = DefaultMaxRetries
  /\ attempt = 0
  /\ lastError = NoError
  /\ requests = 0
  /\ waits = <<>>
  /\ attemptError = NoError
  /\ raised = NoError
  /\ lastResponse = NoResponse

ChatNext ==
  \/ \E mr \in 0..MaxRetriesBound : chatCompletion(mr)
  \/ FetchFails
  \/ \E r \in FetchOutcomes : RateLimited(r)
  \/ \E r \in FetchOutcomes : ServerError(r)
  \/ \E r \in FetchOutcomes : NotOk(r)
  \/ \E r \in FetchOutcomes : Success(r)
  \/ \E r \in FetchOutcomes : BodyParseFails(r)
  \/ SleepDone

-----------------------------------------------------------------------------
(* Completion client: chatCompletionWithFallback *)

\* The message objects of the request: the system prompt and the last
\* message.
SystemMsgRef == 1
LastMsgRef == 2

\* Texts are modelled by the fragments they are made of: a message
\* content is the sequence of its parts, an error message the set of the
\* fragments it contains.
JsonInstruction == "IMPORTANT: You must respond with ONLY a valid JSON object"
Fragments == {"response_format", "json_schema", "not supported", "HTTP 401"}

\* String.prototype.includes on an error message.
Includes(message, fragment) == fragment \in message

\* Mutant of MentionsSchema: every error starts the fallback.
MentionsAlways(message) == TRUE

\* The test of lines 173-177.
MentionsSchema(message) ==
  \/ Includes(message, "response_format")
  \/ Includes(message, "json_schema")
  \/ Includes(message, "not supported")

\* How a chatCompletion call settles: with a response, or with an error.
NoCallError == [kind |-> "none", message |-> {}]
CallResult == [kind |-> "result", message |-> {}]
CallError(message) == [kind |-> "error", message |-> message]
CallOutcomes == {CallResult} \cup {CallError(m) : m \in SUBSET Fragments}

\* The request body of chatCompletion (lines 88-98): the messages as the
\* message objects stand at the call, and response_format only when
\* structured output is asked for and the request has one.
BuildBody(request, heap, useStructuredOutput) ==
  [messages |-> [k \in 1..Len(request.messages) |-> heap[request.messages[k]]],
   response_format |-> useStructuredOutput /\ request.response_format]

\* chatCompletion(request, {useStructuredOutput}) is called.
ChatCall(request, heap, useStructuredOutput) ==
  [body |-> BuildBody(request, heap, useStructuredOutput),
   useStructuredOutput |-> useStructuredOutput]

\* chatCompletionWithFallback(request) is called: the first chatCompletion
\* call is made, with structured output.
chatCompletionWithFallback ==
  /\ FallbackOnly
  /\ fbPc = "idle"
  /\ fbPc' = "first"
  /\ fbCalls' = Append(fbCalls, ChatCall(fbRequest, fbHeap, TRUE))
  /\ UNCHANGED <<fbRequest, fbHeap, fbFirstError, fbOutcome>>

\* The first call settles with o: its response is returned; an error that
\* mentions the schema starts the fallback call, after the instruction is
\* appended to the last message object when that is a user message; any
\* other error is rethrown.
FirstCallSettles(o) ==
  /\ FallbackOnly
  /\ fbPc = "first"
  /\ IF o.kind = "result"
       THEN /\ fbPc' = "returned"
            /\ fbOutcome' = o
            /\ UNCHANGED <<fbHeap, fbCalls, fbFirstError>>
     ELSE IF MentionsSchema(o.message)
       THEN LET modifiedMessages == fbRequest.messages
                lastMsg == modifiedMessages[Len(modifiedMessages)]
                heap == IF fbHeap[lastMsg].role = "user"
                          THEN [fbHeap EXCEPT ![lastMsg].content =
                                  Append(@, JsonInstruction)]
                          ELSE fbHeap
                request == [fbRequest EXCEPT !.response_format = FALSE]
            IN /\ fbHeap' = heap
               /\ fbCalls' = Append(fbCalls, ChatCall(request, heap, FALSE))
               /\ fbFirstError' = o
               /\ fbPc' = "fallback"
               /\ UNCHANGED fbOutcome
     ELSE /\ fbPc' = "thrown"
          /\ fbOutcome' = o
          /\ fbFirstError' = o
          /\ UNCHANGED <<fbHeap, fbCalls>>
  /\ UNCHANGED fbRequest

\* The fallback call settles with o: its response is returned, its error
\* thrown (line 190 is inside the catch block, so nothing catches it).
FallbackCallSettles(o) ==
  /\ FallbackOnly
  /\ fbPc = "fallback"
  /\ fbPc' = IF o.kind = "result" THEN "returned" ELSE "thrown"
  /\ fbOutcome' = o
  /\ UNCHANGED <<fbRequest, fbHeap, fbCalls, fbFirstError>>

\* The message objects before the call: the system prompt and a last
\* message of the given role.
InitialHeap(lastRole) ==
  [r \in {SystemMsgRef, LastMsgRef} |->
     IF r = SystemMsgRef
       THEN [role |-> "system", content |-> <<"system prompt">>]
       ELSE [role |-> lastRole, content |-> <<"prompt">>]]

FallbackInit ==
  /\ fbPc = "idle"
  /\ fbRequest \in [messages : {<<SystemMsgRef, LastMsgRef>>},
                    response_format : BOOLEAN]
  /\ fbHeap \in {InitialHeap(role) : role \in {"user", "assistant"}}
  /\ fbCalls = <<>>
  /\ fbFirstError = NoCallError
  /\ fbOutcome = NoCallError

\* The wrapper's variables while another component is being checked.
FallbackParked ==
  /\ fbPc = "parked"
  /\ fbRequest = [messages |-> <<SystemMsgRef, LastMsgRef>>,
                  response_format |-> TRUE]
  /\ fbHeap = InitialHeap("user")
  /\ fbCalls = <<>>
  /\ fbFirstError = NoCallError
  /\ fbOutcome = NoCallError

FallbackNext ==
  \/ chatCompletionWithFallback
  \/ \E o \in CallOutcomes : FirstCallSettles(o)
  \/ \E o \in CallOutcomes : FallbackCallSettles(o)

-----------------------------------------------------------------------------
(* Tag-suggestion engine *)

\* Tags are strings, modelled as sequences of characters.
TagA == <<"a">>
TagB == <<"b">>
TagHidden == <<"_", "a">>
DefaultPrefixFilter == <<"_">>

CharCode(c) == CASE c = "_" -> 95 [] c = "a" -> 97 [] c = "b" -> 98

\* String.prototype.startsWith
StartsWith(str, prefix) ==
  /\ Len(prefix) <= Len(str)
  /\ SubSeq(str, 1, Len(prefix)) = prefix

\* The default comparison of Array.prototype.sort: by UTF-16 code units.
RECURSIVE LexLess(_, _)
LexLess(x, y) ==
  IF x = <<>> THEN y # <<>>
  ELSE IF y = <<>> THEN FALSE
  ELSE IF CharCode(Head(x)) # CharCode(Head(y))
         THEN CharCode(Head(x)) < CharCode(Head(y))
  ELSE LexLess(Tail(x), Tail(y))

RECURSIVE SortedSeq(_)
SortedSeq(S) ==
  IF S = {} THEN <<>>
  ELSE LET m == CHOOSE x \in S : \A y \in S \ {x} : LexLess(x, y)
       IN <<m>> \o SortedSeq(S \ {m})

Range(q) == {q[k] : k \in 1..Len(q)}

\* The vocabulary filter of getAvailableTags: non-empty names that do not
\* start with the excluded prefix.
KeepTag(name, prefixFilter) ==
  /\ name # <<>>
  /\ ~StartsWith(name, prefixFilter)

\* getAvailableTags(libraryID): the library's distinct tag names, filtered
\* and sorted; the prefix preference falls back to "_" when empty.
getAvailableTags(libraryTags, prefixPref) ==
  LET prefixFilter == IF prefixPref = <<>> THEN DefaultPrefixFilter
                      ELSE prefixPref
  IN SortedSeq({t \in libraryTags : KeepTag(t, prefixFilter)})

\* buildResponseFormat: the tag enum of the schema (constrained only in
\* existing-only mode); tags and reasoning are required.
buildResponseFormat(availableTags, tagSource) ==
  [constrained |-> tagSource = "existing", enum |-> Range(availableTags)]

\* [...new Set(tags)]: first occurrences, in order.
RECURSIVE Dedupe(_)
Dedupe(q) ==
  IF q = <<>> THEN <<>>
  ELSE LET front == Dedupe(SubSeq(q, 1, Len(q) - 1))
           x == q[Len(q)]
       IN IF x \in Range(front) THEN front ELSE Append(front, x)

\* .filter((tag) => !currentTags.includes(tag))
RECURSIVE DropCurrent(_, _)
DropCurrent(q, currentTags) ==
  IF q = <<>> THEN <<>>
  ELSE IF Head(q) \in currentTags THEN DropCurrent(Tail(q), currentTags)
  ELSE <<Head(q)>> \o DropCurrent(Tail(q), currentTags)

\* A deduplication that keeps the last occurrence of each tag.
RECURSIVE DedupeKeepLast(_)
DedupeKeepLast(q) ==
  IF q = <<>> THEN <<>>
  ELSE LET rest == DedupeKeepLast(Tail(q))
       IN IF Head(q) \in Range(rest) THEN rest ELSE <<Head(q)>> \o rest

\* Mutant of PostFilter: the last occurrences are kept.
PostFilterKeepLast(tags, currentTags) ==
  DropCurrent(DedupeKeepLast(tags), currentTags)

\* A filter that drops only the first tag it finds on the item.
RECURSIVE DropFirstCurrent(_, _)
DropFirstCurrent(q, currentTags) ==
  IF q = <<>> THEN <<>>
  ELSE IF Head(q) \in currentTags THEN Tail(q)
  ELSE <<Head(q)>> \o DropFirstCurrent(Tail(q), currentTags)

\* Mutant of PostFilter: one pass drops one current tag only.
PostFilterOnePerPass(tags, currentTags) ==
  DropFirstCurrent(Dedupe(tags), currentTags)

\* The maxTags preference as configured for the calls checked here (the
\* user may set any positive number; prefs.js ships 8).  suggestTags hands
\* it to buildPrompt, which writes "suggest up to N relevant tags" into
\* the prompt, and uses it nowhere else.
MaxTagsPref == 2

\* The post-filter of suggestTags.
PostFilter(tags, currentTags) == DropCurrent(Dedupe(tags), currentTags)

NoRecord ==
  [itemID |-> 0, suggestedTags |-> <<>>, appliedTags |-> <<>>,
   reasoning |-> FALSE, error |-> "none yet"]
ErrorRecord(id, msg) ==
  [itemID |-> id, suggestedTags |-> <<>>, appliedTags |-> <<>>,
   reasoning |-> FALSE, error |-> msg]
\* A record without an error field; reasoning tells whether parsed.reasoning
\* was present.
SuccessRecord(id, tags, hasReasoning) ==
  [itemID |-> id, suggestedTags |-> tags, appliedTags |-> <<>>,
   reasoning |-> hasReasoning, error |-> ""]

\* Mutant of OnException: the exception is not turned into a record.
ExceptionUncaught(id, msg) == NoRecord

\* The catch block of suggestTags (lines 570-579): the record returned
\* for an exception with message msg.
OnException(id, msg) == ErrorRecord(id, msg)

\* Items of the store: a regular item, its child attachment, a standalone
\* attachment and a note.
RegularItem == [id |-> 1, kind |-> "regular", parentID |-> 0]
ChildAttachment == [id |-> 2, kind |-> "attachment", parentID |-> 1]
StandaloneAttachment == [id |-> 3, kind |-> "attachment", parentID |-> 0]
NoteItem == [id |-> 4, kind |-> "note", parentID |-> 0]
StoreItems == {RegularItem, ChildAttachment, StandaloneAttachment, NoteItem}

\* Zotero.Items.get(id)
ItemsGet(id) == CHOOSE it \in StoreItems : it.id = id

\* The target item: the parent of an attachment that has one.
TargetOf(item) ==
  IF item.kind = "attachment" /\ item.parentID # 0
    THEN ItemsGet(item.parentID)
    ELSE item

\* What chatCompletionWithFallback hands back: an error, or the content of
\* the first choice, obtained with the schema (via = "schema") or by the
\* schema-less fallback request (via = "fallback").  The content is the
\* outcome of JSON.parse: not valid JSON, or an object with or without
\* its tags and reasoning fields.
CompletionError == [kind |-> "error", via |-> "schema", valid |-> FALSE,
                    hasTags |-> FALSE, tags |-> <<>>, hasReasoning |-> FALSE]
NoCompletion == [kind |-> "none", via |-> "schema", valid |-> FALSE,
                 hasTags |-> FALSE, tags |-> <<>>, hasReasoning |-> FALSE]
Content(via, valid, hasTags, tags, hasReasoning) ==
  [kind |-> "content", via |-> via, valid |-> valid, hasTags |-> hasTags,
   tags |-> tags, hasReasoning |-> hasReasoning]

\* A provider that honours a strict schema answers a request that carries
\* response_format with an object of exactly that schema.
SchemaAccepts(fmt, c) ==
  /\ c.valid /\ c.hasTags /\ c.hasReasoning
  /\ fmt.constrained => Range(c.tags) \subseteq fmt.enum

\* Lines 548-579 of suggestTags: parse the content, post-filter, build the
\* record; every exception becomes an error record for item.id.
ParseAndFilter(item, target, currentTags, c) ==
  IF c.kind = "error" THEN OnException(item.id, "completion failed")
  ELSE IF ~c.valid THEN OnException(item.id, "JSON.parse failed")
  ELSE SuccessRecord(target.id,
                     PostFilter(IF c.hasTags THEN c.tags ELSE <<>>,
                                currentTags),
                     c.hasReasoning)

\* Lines 461-487 of suggestTags: the target checks.  The result is the
\* error record to return, or NoRecord to go on.
TargetCheck(item) ==
  IF item.kind = "attachment" /\ item.parentID = 0
    THEN ErrorRecord(item.id, "Standalone attachment without parent")
  ELSE IF TargetOf(item).kind # "regular"
    THEN ErrorRecord(item.id, "Not a regular item")
  ELSE NoRecord

\* Mutant of VocabularyCheck: an empty vocabulary is never an error.
VocabularyUnchecked(target, tagSource, availableTags) == NoRecord

\* Lines 500-509 of suggestTags: the vocabulary check.
VocabularyCheck(target, tagSource, availableTags) ==
  IF tagSource = "existing" /\ availableTags = <<>>
    THEN ErrorRecord(target.id, "No available tags found in library")
  ELSE NoRecord

RECURSIVE SeqsUpTo(_, _)
SeqsUpTo(S, n) ==
  IF n = 0 THEN {<<>>}
  ELSE LET shorter == SeqsUpTo(S, n - 1)
       IN shorter \cup {Append(q, x) : q \in shorter, x \in S}

ResponseTags == {TagA, TagB, TagHidden}
ResponseTagLists == SeqsUpTo(ResponseTags, MaxRespLen)

\* Every completion a provider can produce: an error, an object of the
\* schema, or (for the schema-less fallback request) any text.
AllCompletions ==
  {CompletionError}
    \cup {Content("schema", TRUE, TRUE, tags, TRUE) : tags \in ResponseTagLists}
    \cup {Content("fallback", FALSE, FALSE, <<>>, FALSE)}
    \cup {Content("fallback", TRUE, FALSE, <<>>, hr) : hr \in BOOLEAN}
    \cup {Content("fallback", TRUE, TRUE, tags, hr) :
            tags \in ResponseTagLists, hr \in BOOLEAN}

\* The completions the provider can produce for a request whose schema is
\* fmt: an answer to the request that carries the schema conforms to it,
\* an answer to the schema-less fallback request is any text.
Completions(fmt) ==
  {c \in AllCompletions :
     (c.kind = "content" /\ c.via = "schema") => SchemaAccepts(fmt, c)}

\* How the environment calls of suggestTags can end: the vocabulary
\* lookup (getAvailableTags), and the text extraction, which runs only
\* when the includeFullText preference is set ("off" otherwise).
VocabOutcomes == {"ok", "throws"}
TextOutcomes == {"off", "ok", "throws"}
NoEnv == [vocab |-> "unused", text |-> "unused"]

\* suggestTags(item) is called: the target check, the vocabulary lookup
\* and check and the text extraction run, and either an error record is
\* returned or the completion request is made.
SuggestStart(vocab, text) ==
  /\ SuggestOnly
  /\ sgPc = "idle"
  /\ LET item == sgInput.item
         targetErr == TargetCheck(item)
         lookedUp == targetErr = NoRecord
         available == IF lookedUp /\ vocab = "ok"
                        THEN getAvailableTags(sgInput.libraryTags,
                                              sgInput.prefixPref)
                        ELSE <<>>
         vocabErr == VocabularyCheck(TargetOf(item), sgInput.tagSource,
                                     available)
         extracted == lookedUp /\ vocab = "ok" /\ vocabErr = NoRecord
         ended == \/ targetErr # NoRecord
                  \/ vocab = "throws"
                  \/ vocabErr # NoRecord
                  \/ text = "throws"
         rec == IF targetErr # NoRecord THEN targetErr
                ELSE IF vocab = "throws"
                  THEN OnException(item.id, "vocabulary lookup failed")
                ELSE IF vocabErr # NoRecord THEN vocabErr
                ELSE OnException(item.id, "text extraction failed")
     IN /\ sgAvailable' = available
        /\ sgEnv' = [vocab |-> IF lookedUp THEN vocab ELSE "unused",
                     text |-> IF extracted THEN text ELSE "unused"]
        /\ IF ended
             THEN /\ sgPc' = "returned"
                  /\ sgRecord' = rec
                  /\ sgSent' = sgSent
             ELSE /\ sgPc' = "calling"
                  /\ sgRecord' = sgRecord
                  /\ sgSent' = sgSent + 1
  /\ UNCHANGED <<sgInput, sgCompletion>>

\* chatCompletionWithFallback settles: the content is parsed and filtered
\* against the target's tags, and the record is returned.
SuggestCompletes(c) ==
  /\ SuggestOnly
  /\ sgPc = "calling"
  /\ c \in Completions(buildResponseFormat(sgAvailable, sgInput.tagSource))
  /\ sgPc' = "returned"
  /\ sgRecord' = ParseAndFilter(sgInput.item, TargetOf(sgInput.item),
                                sgInput.currentTags, c)
  /\ sgCompletion' = c
  /\ UNCHANGED <<sgInput, sgAvailable, sgSent, sgEnv>>

SuggestInputs ==
  [item : StoreItems,
   tagSource : {"existing", "new"},
   libraryTags : SUBSET {TagA, TagB, TagHidden},
   prefixPref : {<<>>, <<"_">>},
   currentTags : SUBSET {TagA, TagB}]

SuggestInit ==
  /\ sgPc = "idle"
  /\ sgInput \in SuggestInputs
  /\ sgAvailable = <<>>
  /\ sgSent = 0
  /\ sgRecord = NoRecord
  /\ sgEnv = NoEnv
  /\ sgCompletion = NoCompletion

\* The engine's variables while another component is being checked.
SuggestParked ==
  /\ sgPc = "parked"
  /\ sgInput = [item |-> RegularItem, tagSource |-> "existing",
                libraryTags |-> {}, prefixPref |-> <<>>, currentTags |-> {}]
  /\ sgAvailable = <<>>
  /\ sgSent = 0
  /\ sgRecord = NoRecord
  /\ sgEnv = NoEnv
  /\ sgCompletion = NoCompletion

SuggestNext ==
  \/ \E vocab \in VocabOutcomes, text \in TextOutcomes :
       SuggestStart(vocab, text)
  \/ \E c \in AllCompletions : SuggestCompletes(c)

-----------------------------------------------------------------------------
(* Batch scheduler *)

DefaultConcurrency == 3
DefaultInterval == 1000

\* (getPref(key) as number) || fallback
PrefOr(pref, fallback) == IF pref = 0 THEN fallback ELSE pref

Items == 1..bConfig.n
\* The i-th entry of items: a regular item of its own, or (in a shared
\* batch, for every entry after the first) a child attachment of the
\* first entry's item, which handleTagSelected lets into a batch.
BatchItem(i) ==
  IF bConfig.shared /\ i > 1
    THEN [id |-> i, kind |-> "attachment", parentID |-> 1]
    ELSE [id |-> i, kind |-> "regular", parentID |-> 0]

\* The single array created for progress.results.
ResultsRef == 1
Results == arrays[progress.results]

\* Mutant of HasFreeSlot: the comparison is off by one.
HasFreeSlotOffByOne(sem) == sem.active <= sem.limit

\* Semaphore.acquire, line 104: a slot is free.
HasFreeSlot(sem) == sem.active < sem.limit

\* Mutant of Acquire: a slot is taken whatever the limit.
AcquireUnbounded(sem, i) == [sem EXCEPT !.active = @ + 1]

\* Mutant of Acquire: a waiter joins the queue at its front.
AcquireAtFront(sem, i) ==
  IF HasFreeSlot(sem)
    THEN [sem EXCEPT !.active = @ + 1]
    ELSE [sem EXCEPT !.queue = <<i>> \o @]

\* Semaphore.acquire for item i: take a slot at once or join the queue.
Acquire(sem, i) ==
  IF HasFreeSlot(sem)
    THEN [sem EXCEPT !.active = @ + 1]
    ELSE [sem EXCEPT !.queue = Append(@, i)]

\* All items calling acquire in list order, as items.map does.
RECURSIVE AcquireAll(_, _)
AcquireAll(sem, k) ==
  IF k = 0 THEN sem ELSE Acquire(AcquireAll(sem, k - 1), k)

\* Mutant of Release: the resumed waiter does not count itself in.
ReleaseForgetsWaiter(sem) ==
  IF sem.queue = <<>>
    THEN [sem EXCEPT !.active = @ - 1]
    ELSE [sem EXCEPT !.active = @ - 1, !.queue = Tail(@)]

\* Semaphore.release: active--, then the oldest waiter, if any, runs its
\* callback (active++ and resolve).
Release(sem) ==
  IF sem.queue = <<>>
    THEN [sem EXCEPT !.active = @ - 1]
    ELSE [sem EXCEPT !.queue = Tail(@)]

\* The waiter that Release(sem) resumes (0 when none).
Resumed(sem) == IF sem.queue = <<>> THEN 0 ELSE Head(sem.queue)

\* Mutant of Spread: the snapshot reports the total as current.
SpreadTotal(p) ==
  [total |-> p.total, current |-> p.total, results |-> p.results,
   cancelled |-> p.cancelled]

\* { ...progress }: a new object with the same field values; results is
\* copied as a reference.
Spread(p) ==
  [total |-> p.total, current |-> p.current, results |-> p.results,
   cancelled |-> p.cancelled]

\* What a holder of snapshot s reads from it.
Observed(s) ==
  [total |-> s.total, current |-> s.current, results |-> arrays[s.results],
   cancelled |-> s.cancelled]

\* The library vocabulary of the batch's items and the preferences of
\* the engine (prefs.js: tagSource "existing", tagPrefixFilter "_").
BatchLibraryTags == {TagA, TagB, TagHidden}
BatchTagSource == "existing"
BatchAvailable == getAvailableTags(BatchLibraryTags, DefaultPrefixFilter)

\* The completions the batch's suggestion calls can end with.
BatchCompletions ==
  {CompletionError, Content("schema", TRUE, TRUE, <<TagA, TagB>>, TRUE)}

\* suggestTags(item) as processItem sees it: the record it resolves with
\* when its completion call ends with c.
\* No item carries a tag before a shared batch.
SharedTags == [i \in 1..MaxItems |-> {}]

\* Mutant of CurrentTags: the tags the target had as the batch began.
CurrentTagsAtStart(store, id) == SharedTags[id]

\* targetItem.getTags() (lines 556-558): the tags of the one in-memory
\* item object that Zotero.Items.get returns for the id, read as the
\* response is processed.
CurrentTags(store, id) == store[id]

suggestTags(i, c) ==
  LET item == BatchItem(i)
      targetErr == TargetCheck(item)
      vocabErr == VocabularyCheck(TargetOf(item), BatchTagSource,
                                  BatchAvailable)
  IN IF targetErr # NoRecord THEN targetErr
     ELSE IF vocabErr # NoRecord THEN vocabErr
     ELSE ParseAndFilter(item, TargetOf(item),
                         CurrentTags(tagStore, TargetOf(item).id), c)

\* Mutant of Checkpoint: the flag is not looked at.
CheckpointIgnored(flag) == FALSE

\* A cancellation checkpoint, `if (cancelled) return;` (lines 167, 175, 180).
Checkpoint(flag) == flag

\* Mutant of NeedsPacing: the first request is paced too.
NeedsPacingAlways(rc, iv) == iv > 0

\* The pacing guard of line 170.
NeedsPacing(rc, iv) == rc > 0 /\ iv > 0

\* Mutant of AppliedTagsOf: the suggested tags are recorded.
AppliedTagsSuggested(result, tagsToApply) == result.suggestedTags

\* result.appliedTags = tagsToApply (line 192)
AppliedTagsOf(result, tagsToApply) == tagsToApply

NoDispatch == [paced |-> [i \in 1..MaxItems |-> "none"], first |-> 0]

\* The call log while it is not kept, and as a run that keeps it begins.
NoCallLog == [on |-> FALSE, asleep |-> {}, close |-> 0]
EmptyCallLog == [on |-> TRUE, asleep |-> {}, close |-> 0]

\* The items whose processItem call has ended: with a record pushed
\* ("done"), at a cancellation checkpoint before its suggestion call
\* ("skipped", lines 167 and 175) or after it ("dropped", line 180), or by
\* an exception ("failed").
EndedPcs == {"done", "skipped", "dropped", "failed"}
\* The items that hold a slot of the semaphore.
HoldingPcs == {"admitted", "sleeping", "suggesting", "confirming", "applying"}
\* The items whose suggestion call has begun.
StartedPcs ==
  {"suggesting", "confirming", "applying", "done", "dropped", "failed"}

\* Mutant of FinallyRelease: the slot is released only when processItem
\* returns, not when an exception leaves it.
ReleaseOnReturn(sem, how) == IF how = "failed" THEN sem ELSE Release(sem)

\* finally { semaphore.release(); ... } (lines 198-199): whichever way
\* processItem is left.
FinallyRelease(sem, how) == Release(sem)

\* The finally block of processItem for item i, which ends as `how`:
\* release, progress.current++, onProgress({ ...progress }); `push` tells
\* whether line 196 ran before it.  The batch promise settles when this
\* was the last call (Promise.all) or rejects with the first exception.
Finally(i, how, push, pcs) ==
  LET rel == FinallyRelease(semaphore, how)
      nxt == Resumed(semaphore)
      pcs1 == [pcs EXCEPT ![i] = how]
      pcs2 == IF nxt = 0 THEN pcs1 ELSE [pcs1 EXCEPT ![nxt] = "admitted"]
      prog == [progress EXCEPT !.current = @ + 1]
  IN /\ semaphore' = rel
     /\ itPc' = pcs2
     /\ arrays' = IF push
                    THEN [arrays EXCEPT ![progress.results] =
                            Append(@, itResult'[i])]
                    ELSE arrays
     /\ progress' = prog
     /\ snapshots' = Append(snapshots, Spread(prog))
     /\ bPc' = IF bPc # "pending" THEN bPc
               ELSE IF how = "failed" THEN "rejected"
               ELSE IF \A j \in Items : pcs2[j] \in {"done", "skipped", "dropped"}
                 THEN "resolved"
               ELSE bPc

\* applyTags(itemID, tags) is called: every tag is added to the in-memory
\* item, then saveTx() is awaited when there is at least one tag.
ApplyCall(i, tags) ==
  /\ tagStore' = [tagStore EXCEPT ![itResult'[i].itemID] = @ \cup Range(tags)]
  /\ itPc' = [itPc EXCEPT ![i] = "applying"]
  /\ UNCHANGED <<bPc, semaphore, progress, arrays, snapshots>>

\* processBatch(items, onProgress, confirmFn) is called: the preferences
\* are read, and every processItem call runs up to its await of acquire.
processBatch ==
  /\ BatchOnly
  /\ bPc = "idle"
  /\ LET sem0 == [limit |-> PrefOr(bConfig.concurrencyPref, DefaultConcurrency),
                  active |-> 0, queue |-> <<>>]
         sem == AcquireAll(sem0, bConfig.n)
     IN /\ semaphore' = sem
        /\ itPc' = [i \in 1..MaxItems |->
                      IF i > bConfig.n THEN "none"
                      ELSE IF i \in Range(sem.queue) THEN "queued"
                      ELSE "admitted"]
  /\ interval' = PrefOr(bConfig.intervalPref, DefaultInterval)
  /\ cancelled' = FALSE
  /\ requestCount' = 0
  /\ progress' = [total |-> bConfig.n, current |-> 0, results |-> ResultsRef,
                  cancelled |-> FALSE]
  /\ arrays' = [r \in {ResultsRef} |-> <<>>]
  /\ bPc' = IF bConfig.n = 0 THEN "resolved" ELSE "pending"
  /\ UNCHANGED <<bConfig, snapshots, itResult, itTagsToApply, tagStore,
                 savedStore, startedAtCancel, dispatch, callLog>>

\* cancel()
cancel ==
  /\ BatchOnly
  /\ bPc # "idle"
  /\ cancelled' = TRUE
  /\ progress' = [progress EXCEPT !.cancelled = TRUE]
  /\ startedAtCancel' = IF cancelled THEN startedAtCancel
                        ELSE {i \in Items : itPc[i] \in StartedPcs}
  /\ UNCHANGED <<bPc, bConfig, semaphore, interval, requestCount, arrays,
                 snapshots, itPc, itResult, itTagsToApply, tagStore,
                 savedStore, dispatch, callLog>>

\* The call of suggestTags at line 178 (its result arrives later).
SuggestCall(i, paced) ==
  /\ itPc' = [itPc EXCEPT ![i] = "suggesting"]
  /\ dispatch' = [paced |-> [dispatch.paced EXCEPT ![i] = paced],
                  first |-> IF dispatch.first = 0 THEN i ELSE dispatch.first]
  /\ callLog' = IF callLog.on
                  THEN [on |-> TRUE,
                        asleep |-> {j \in Items \ {i} : itPc[j] = "sleeping"},
                        close |-> IF callLog.close = 0 /\ i \in callLog.asleep
                                    THEN i ELSE callLog.close]
                  ELSE callLog
  /\ UNCHANGED <<bPc, semaphore, progress, arrays, snapshots>>

\* processItem resumes after `await semaphore.acquire()`.
Admitted(i) ==
  /\ BatchOnly
  /\ itPc[i] = "admitted"
  /\ IF Checkpoint(cancelled)
       THEN /\ Finally(i, "skipped", FALSE, itPc)
            /\ UNCHANGED <<requestCount, dispatch, callLog>>
     ELSE IF NeedsPacing(requestCount, interval)
       THEN /\ itPc' = [itPc EXCEPT ![i] = "sleeping"]
            /\ UNCHANGED <<bPc, semaphore, progress, arrays, snapshots,
                           requestCount, dispatch, callLog>>
     ELSE /\ requestCount' = requestCount + 1
          /\ SuggestCall(i, "direct")
  /\ UNCHANGED <<bConfig, interval, cancelled, itResult, itTagsToApply,
                 tagStore, savedStore, startedAtCancel>>

\* Mutant of PacesAgain: an item that wakes after another item's call was
\* dispatched during its sleep goes back to the pacing guard.
PacesAgainAfterCall(log, i) == i \in log.asleep

\* Line 170 is an `if`, not a loop: after its one sleep the item goes on
\* to its call whatever was dispatched in the meantime.
PacesAgain(log, i) == FALSE

\* processItem resumes after `await sleep(interval)`.
PacingDone(i) ==
  /\ BatchOnly
  /\ itPc[i] = "sleeping"
  /\ requestCount' = requestCount + 1
  /\ IF Checkpoint(cancelled)
       THEN /\ Finally(i, "skipped", FALSE, itPc)
            /\ UNCHANGED <<dispatch, callLog>>
     ELSE IF PacesAgain(callLog, i)
       THEN /\ itPc' = [itPc EXCEPT ![i] = "admitted"]
            /\ UNCHANGED <<bPc, semaphore, progress, arrays, snapshots,
                           dispatch, callLog>>
     ELSE SuggestCall(i, "slept")
  /\ UNCHANGED <<bConfig, interval, cancelled, itResult, itTagsToApply,
                 tagStore, savedStore, startedAtCancel>>

\* Mutant of ShouldCommit: a record with an error goes on to the hook and
\* to applyTags as well.
ShouldCommitErrors(result) ==
  result.error # "" \/ Len(result.suggestedTags) > 0

\* if (!result.error && result.suggestedTags.length > 0) (line 183)
ShouldCommit(result) ==
  result.error = "" /\ Len(result.suggestedTags) > 0

\* suggestTags resolves with the record for completion c, and processItem
\* runs on to its next await or to its end.
SuggestReturns(i, c) ==
  /\ BatchOnly
  /\ itPc[i] = "suggesting"
  /\ LET result == suggestTags(i, c)
     IN /\ itResult' = [itResult EXCEPT ![i] = result]
        /\ IF Checkpoint(cancelled)
             THEN /\ Finally(i, "dropped", FALSE, itPc)
                  /\ UNCHANGED <<itTagsToApply, tagStore>>
           ELSE IF ShouldCommit(result)
             THEN /\ itTagsToApply' =
                       [itTagsToApply EXCEPT ![i] = result.suggestedTags]
                  /\ IF bConfig.confirmFn
                       THEN /\ itPc' = [itPc EXCEPT ![i] = "confirming"]
                            /\ UNCHANGED <<bPc, semaphore, progress, arrays,
                                           snapshots, tagStore>>
                       ELSE ApplyCall(i, result.suggestedTags)
           ELSE /\ Finally(i, "done", TRUE, itPc)
                /\ UNCHANGED <<itTagsToApply, tagStore>>
  /\ UNCHANGED <<bConfig, interval, cancelled, requestCount, savedStore,
                 startedAtCancel, dispatch, callLog>>

\* What confirmFn can resolve with: the suggested tags (accept), a part
\* of them (the caller's own hook may edit the list) or null.
ConfirmAnswers(result) ==
  {result.suggestedTags, SubSeq(result.suggestedTags, 1, 1), <<>>}

\* Every answer a hook can give in a run: the leading parts of the tag
\* lists the completions of the run carry.
HookAnswers ==
  UNION {{SubSeq(c.tags, 1, n) : n \in 0..Len(c.tags)} : c \in BatchCompletions}

\* Mutant of HasTagsToApply: whatever the hook returned is applied.
HasTagsToApplyAlways(tagsToApply) == TRUE

\* tagsToApply && tagsToApply.length > 0 (line 190; <<>> models null too)
HasTagsToApply(tagsToApply) == Len(tagsToApply) > 0

\* confirmFn(result) resolves with answer (<<>> models null).
ConfirmReturns(i, answer) ==
  /\ BatchOnly
  /\ itPc[i] = "confirming"
  /\ answer \in ConfirmAnswers(itResult[i])
  /\ itTagsToApply' = [itTagsToApply EXCEPT ![i] = answer]
  /\ itResult' = itResult
  /\ IF HasTagsToApply(answer)
       THEN ApplyCall(i, answer)
       ELSE /\ Finally(i, "done", TRUE, itPc)
            /\ UNCHANGED tagStore
  /\ UNCHANGED <<bConfig, interval, cancelled, requestCount, savedStore,
                 startedAtCancel, dispatch, callLog>>

\* confirmFn(result) rejects: the exception leaves processItem through the
\* finally block.
ConfirmThrows(i) ==
  /\ BatchOnly
  /\ itPc[i] = "confirming"
  /\ itResult' = itResult
  /\ Finally(i, "failed", FALSE, itPc)
  /\ UNCHANGED <<bConfig, interval, cancelled, requestCount, itTagsToApply,
                 tagStore, savedStore, startedAtCancel, dispatch, callLog>>

\* item.saveTx() resolves: result.appliedTags = tagsToApply, the record is
\* pushed.
ApplyReturns(i) ==
  /\ BatchOnly
  /\ itPc[i] = "applying"
  /\ savedStore' = [savedStore EXCEPT ![itResult[i].itemID] =
                      tagStore[itResult[i].itemID]]
  /\ itResult' = [itResult EXCEPT ![i].appliedTags =
                                    AppliedTagsOf(itResult[i], itTagsToApply[i])]
  /\ Finally(i, "done", TRUE, itPc)
  /\ UNCHANGED <<bConfig, interval, cancelled, requestCount, itTagsToApply,
                 tagStore, startedAtCancel, dispatch, callLog>>

\* item.saveTx() rejects: the exception leaves processItem through the
\* finally block.
ApplyThrows(i) ==
  /\ BatchOnly
  /\ itPc[i] = "applying"
  /\ itResult' = itResult
  /\ Finally(i, "failed", FALSE, itPc)
  /\ UNCHANGED <<bConfig, interval, cancelled, requestCount, itTagsToApply,
                 tagStore, savedStore, startedAtCancel, dispatch, callLog>>

-----------------------------------------------------------------------------
(* Tag-suggestion engine: applyTags *)

\* Mutant of AddTag: the tag is added even when the item carries it.
AddTagAgain(itemTags, tag) == Append(itemTags, tag)

\* item.addTag(tag): a tag the item already carries is left alone.
AddTag(itemTags, tag) ==
  IF tag \in Range(itemTags) THEN itemTags ELSE Append(itemTags, tag)

\* for (const tag of tags) item.addTag(tag)
RECURSIVE AddTags(_, _)
AddTags(itemTags, tags) ==
  IF tags = <<>> THEN itemTags
  ELSE AddTags(AddTag(itemTags, Head(tags)), Tail(tags))

\* Mutant of NeedsSave: the item is saved whatever the list.
NeedsSaveAlways(tags) == TRUE

\* if (tags.length > 0)
NeedsSave(tags) == Len(tags) > 0

NoFirst == [ended |-> FALSE, saved |-> FALSE, item |-> <<>>, store |-> <<>>]

\* An applyTags call ends; the first one to end is remembered.
ApplyEnds(saved, store) ==
  /\ apCalls' = apCalls + 1
  /\ apFirst' = IF apFirst.ended THEN apFirst
                ELSE [ended |-> TRUE, saved |-> saved, item |-> apItemTags',
                      store |-> store]

\* suggestTags(item) is called on the item and returns its record: it
\* reads the item's tags and writes nothing.
ApplySuggests(c) ==
  /\ ApplyOnly
  /\ apPc = "idle"
  /\ apRecord = NoRecord
  /\ apRecord' = ParseAndFilter(RegularItem, RegularItem, Range(apItemTags), c)
  /\ UNCHANGED <<apPc, apTags, apItemTags, apStore, apSaves, apCalls, apFirst>>

\* applyTags(itemID, tags) is called: every tag is added to the item;
\* with at least one tag saveTx() is awaited, else the call returns.
applyTags ==
  /\ ApplyOnly
  /\ apPc = "idle"
  /\ apCalls < MaxApplyCalls
  /\ apItemTags' = AddTags(apItemTags, apTags)
  /\ IF NeedsSave(apTags)
       THEN /\ apPc' = "saving"
            /\ UNCHANGED <<apCalls, apFirst>>
       ELSE /\ apPc' = "idle"
            /\ ApplyEnds(FALSE, apStore)
  /\ UNCHANGED <<apTags, apStore, apSaves, apRecord>>

\* item.saveTx() resolves: the item is persisted and applyTags returns.
SaveTxResolves ==
  /\ ApplyOnly
  /\ apPc = "saving"
  /\ apPc' = "idle"
  /\ apStore' = apItemTags
  /\ apSaves' = apSaves + 1
  /\ apItemTags' = apItemTags
  /\ ApplyEnds(TRUE, apItemTags)
  /\ UNCHANGED <<apTags, apRecord>>

\* item.saveTx() rejects: nothing is persisted and applyTags throws.
SaveTxRejects ==
  /\ ApplyOnly
  /\ apPc = "saving"
  /\ apPc' = "idle"
  /\ apSaves' = apSaves + 1
  /\ apItemTags' = apItemTags
  /\ ApplyEnds(FALSE, apStore)
  /\ UNCHANGED <<apTags, apStore, apRecord>>

\* The tag lists an item can carry (no tag twice) and the tag lists
\* applyTags can be given.
ItemTagLists == {q \in SeqsUpTo({TagA, TagB}, MaxApplyLen) : Dedupe(q) = q}
ApplyTagLists == SeqsUpTo(ResponseTags, MaxApplyLen)

ApplyInit ==
  /\ apPc = "idle"
  /\ apTags \in ApplyTagLists
  /\ apItemTags \in ItemTagLists
  /\ apStore = apItemTags
  /\ apSaves = 0
  /\ apCalls = 0
  /\ apFirst = NoFirst
  /\ apRecord = NoRecord

\* The variables of the applyTags calls while another component is being
\* checked.
ApplyParked ==
  /\ apPc = "parked"
  /\ apTags = <<>>
  /\ apItemTags = <<>>
  /\ apStore = <<>>
  /\ apSaves = 0
  /\ apCalls = 0
  /\ apFirst = NoFirst
  /\ apRecord = NoRecord

ApplyNext ==
  \/ \E c \in BatchCompletions : ApplySuggests(c)
  \/ applyTags
  \/ SaveTxResolves
  \/ SaveTxRejects

-----------------------------------------------------------------------------

BatchConfigs ==
  [n : 0..MaxItems,
   concurrencyPref : {0, 1, 2},
   intervalPref : {0, 1000},
   confirmFn : BOOLEAN,
   shared : {FALSE}]

\* The tags the items carry before the run: item 1 already has both tags
\* the model suggests, the other items have none.
InitialTags == [i \in 1..MaxItems |-> IF i = 1 THEN {TagA, TagB} ELSE {}]

\* The state as processBatch is about to be called with one of configs.
BatchStart(configs, log, tags) ==
  /\ bPc = "idle"
  /\ bConfig \in configs
  /\ semaphore = [limit |-> DefaultConcurrency, active |-> 0, queue |-> <<>>]
  /\ interval = DefaultInterval
  /\ cancelled = FALSE
  /\ requestCount = 0
  /\ progress = [total |-> 0, current |-> 0, results |-> ResultsRef,
                 cancelled |-> FALSE]
  /\ arrays = [r \in {ResultsRef} |-> <<>>]
  /\ snapshots = <<>>
  /\ itPc = [i \in 1..MaxItems |-> "none"]
  /\ itResult = [i \in 1..MaxItems |-> NoRecord]
  /\ itTagsToApply = [i \in 1..MaxItems |-> <<>>]
  /\ tagStore = tags
  /\ savedStore = tags
  /\ startedAtCancel = {}
  /\ dispatch = NoDispatch
  /\ callLog = log

BatchInit == BatchStart(BatchConfigs, NoCallLog, InitialTags)

\* The preferences under which two items can be in their pacing sleep at
\* once: a gate of two or more slots and a positive interval.
PacingConfigs ==
  {cfg \in BatchConfigs :
     /\ PrefOr(cfg.concurrencyPref, DefaultConcurrency) >= 2
     /\ cfg.intervalPref > 0}

PacingInit == BatchStart(PacingConfigs, EmptyCallLog, InitialTags)

\* The batches whose entries after the first are child attachments of
\* the first entry's item: they all tag that one item.
SharedConfigs ==
  [n : 0..MaxItems,
   concurrencyPref : {0, 1, 2},
   intervalPref : {1000},
   confirmFn : BOOLEAN,
   shared : {TRUE}]

SharedInit == BatchStart(SharedConfigs, NoCallLog, SharedTags)

\* The scheduler's variables while another component is being checked.
BatchParked ==
  /\ bPc = "parked"
  /\ bConfig = [n |-> 0, concurrencyPref |-> 0, intervalPref |-> 0,
                confirmFn |-> FALSE, shared |-> FALSE]
  /\ semaphore = [limit |-> DefaultConcurrency, active |-> 0, queue |-> <<>>]
  /\ interval = DefaultInterval
  /\ cancelled = FALSE
  /\ requestCount = 0
  /\ progress = [total |-> 0, current |-> 0, results |-> ResultsRef,
                 cancelled |-> FALSE]
  /\ arrays = [r \in {ResultsRef} |-> <<>>]
  /\ snapshots = <<>>
  /\ itPc = [i \in 1..MaxItems |-> "none"]
  /\ itResult = [i \in 1..MaxItems |-> NoRecord]
  /\ itTagsToApply = [i \in 1..MaxItems |-> <<>>]
  /\ tagStore = InitialTags
  /\ savedStore = InitialTags
  /\ startedAtCancel = {}
  /\ dispatch = NoDispatch
  /\ callLog = NoCallLog

Next ==
  \/ processBatch
  \/ cancel
  \/ \E i \in 1..MaxItems : Admitted(i)
  \/ \E i \in 1..MaxItems : PacingDone(i)
  \/ \E i \in 1..MaxItems : \E c \in BatchCompletions : SuggestReturns(i, c)
  \/ \E i \in 1..MaxItems : \E answer \in HookAnswers :
       ConfirmReturns(i, answer)
  \/ \E i \in 1..MaxItems : ConfirmThrows(i)
  \/ \E i \in 1..MaxItems : ApplyReturns(i)
  \/ \E i \in 1..MaxItems : ApplyThrows(i)

vars == <<chatVars, fallbackVars, suggestVars, applyVars, batchVars>>

Init ==
  ChatParked /\ FallbackParked /\ SuggestParked /\ ApplyParked /\ BatchInit
Spec == Init /\ [][Next]_vars


InitPacing ==
  ChatParked /\ FallbackParked /\ SuggestParked /\ ApplyParked /\ PacingInit
SpecPacing == InitPacing /\ [][Next]_vars

InitShared ==
  ChatParked /\ FallbackParked /\ SuggestParked /\ ApplyParked /\ SharedInit
SpecShared == InitShared /\ [][Next]_vars

InitChat ==
  ChatInit /\ FallbackParked /\ SuggestParked /\ ApplyParked /\ BatchParked
SpecChat == InitChat /\ [][ChatNext]_vars

InitSuggest ==
  ChatParked /\ FallbackParked /\ SuggestInit /\ ApplyParked /\ BatchParked
SpecSuggest == InitSuggest /\ [][SuggestNext]_vars

InitFallback ==
  ChatParked /\ FallbackInit /\ SuggestParked /\ ApplyParked /\ BatchParked
SpecFallback == InitFallback /\ [][FallbackNext]_vars

InitApply ==
  ChatParked /\ FallbackParked /\ SuggestParked /\ ApplyInit /\ BatchParked
SpecApply == InitApply /\ [][ApplyNext]_vars

-----------------------------------------------------------------------------
(* Properties *)

SuggestingItems == {i \in Items : itPc[i] = "suggesting"}
SlotHolders == {i \in Items : itPc[i] \in HoldingPcs}
\* The items that ended at a cancellation checkpoint.
SkippedItems == {i \in Items : itPc[i] \in {"skipped", "dropped"}}
RecordedItems == {Results[k].itemID : k \in 1..Len(Results)}

\* C1: during a processBatch run with concurrency limit L >= 1, the number
\* of items holding an admission slot, and so the number of suggestTags
\* calls in flight, never exceeds L.
C1_InFlightWithinLimit ==
  /\ semaphore.limit >= 1
  /\ semaphore.active <= semaphore.limit
  /\ Cardinality(SlotHolders) <= semaphore.limit
  /\ Cardinality(SuggestingItems) <= semaphore.limit

\* C1 witness: limit 2 over 3 items, two suggestion calls in flight and
\* the third item waiting in the queue.
C1_Witness ==
  /\ bPc = "pending"
  /\ semaphore.limit = 2
  /\ Cardinality(SuggestingItems) = 2
  /\ Len(semaphore.queue) = 1

\* A non-2xx status other than 429 and 5xx.
TerminalStatus(st) == st >= 400 /\ st <= 499 /\ st # 429

\* C2 (as claimed): a response with a non-2xx status other than 429 and
\* 5xx ends chatCompletion at once: the error of that attempt is raised,
\* with no backoff wait after it and no further request.
C2_TerminalStatusRaisedAtOnce ==
  (attemptError.kind = "http" /\ TerminalStatus(attemptError.status)) =>
    /\ ccPc = "thrown"
    /\ raised = attemptError
    /\ Len(waits) = attemptError.attempt
    /\ requests = attemptError.attempt + 1

\* C3 (as claimed): in the final report the number of result records is
\* the number of items not skipped by cancellation, and current plus the
\* number of skipped items is total.
C3_FinalReportCounts ==
  bPc = "resolved" =>
    /\ Len(Results) = bConfig.n - Cardinality(SkippedItems)
    /\ progress.current + Cardinality(SkippedItems) = progress.total

\* C4 (as claimed): when cancel() was called after some items had begun
\* their suggestion call, the final report has cancelled = true,
\* current <= n, and a record of every one of those items.
C4_StartedItemsRecorded ==
  (bPc = "resolved" /\ cancelled) =>
    /\ progress.cancelled
    /\ progress.current <= bConfig.n
    /\ startedAtCancel \subseteq RecordedItems

\* C5 (as claimed): in existing-only mode every tag of a record without
\* an error is a member of the filtered vocabulary gathered for the call,
\* whichever path the model's response came by.
C5_SuggestedWithinVocabulary ==
  (sgPc = "returned" /\ sgInput.tagSource = "existing"
     /\ sgRecord.error = "") =>
    Range(sgRecord.suggestedTags) \subseteq Range(sgAvailable)

\* C6 (as claimed): the promise returned by processBatch never rejects
\* because of an error of one item (suggestion, confirmation hook or
\* applyTags).
C6_PromiseNeverRejects == bPc # "rejected"

\* C7 (as claimed): no later activity of the scheduler changes anything
\* a delivered snapshot shows, its results list included.
C7_SnapshotsFrozen ==
  [][\A k \in 1..Len(snapshots) :
       Observed(snapshots[k])' = Observed(snapshots[k])]_vars

\* C8 (as claimed): every item whose processing ends increments current
\* and appends its record before the snapshot is emitted, so the length
\* of results equals current at every onProgress call and every ended
\* item has its record.
C8_ResultsMatchCurrent ==
  /\ Len(Results) = progress.current
  /\ \A k \in 1..Len(snapshots) :
       Len(Observed(snapshots[k]).results) >= snapshots[k].current
  /\ \A i \in Items : itPc[i] \in EndedPcs => i \in RecordedItems

\* C9: chatCompletion sends at most maxRetries + 1 requests, one per
\* attempt, whatever the outcomes are; it sends nothing after a success
\* and raises only once all maxRetries + 1 attempts are used up.
C9_RequestsBounded ==
  /\ requests <= maxRetries + 1
  /\ ccPc \in {"fetching", "sleeping", "returned"} => requests = attempt + 1
  /\ ccPc = "returned" => raised = NoError /\ attemptError = NoError
  /\ ccPc = "thrown" => requests = maxRetries + 1 /\ raised # NoError

\* C9 witness: the default maxRetries = 3, four requests sent, all failed,
\* the error raised.
C9_Witness ==
  /\ ccPc = "thrown"
  /\ maxRetries = DefaultMaxRetries
  /\ requests = 4

\* C10 (as claimed): when every attempt fails, the error raised is the
\* error of the final attempt.
C10_RaisesFinalAttemptError ==
  ccPc = "thrown" => raised = attemptError

\* ---------------------------------------------------------------------
\* C11: once cancel() has been called no item starts a suggestTags call
\* and no item starts a confirmation-hook call; cancel() itself moves no
\* item, so the calls in flight are left to finish; and an item that
\* reaches a checkpoint before its own suggestion call (after admission,
\* after the pacing sleep) is skipped.
C11_NoNewWorkAfterCancel ==
  [][/\ (cancelled' /\ ~cancelled) => itPc' = itPc
     /\ cancelled =>
          \A i \in Items :
            /\ itPc'[i] = "suggesting" => itPc[i] = "suggesting"
            /\ itPc'[i] = "confirming" => itPc[i] = "confirming"
            /\ (itPc[i] \in {"admitted", "sleeping"} /\ itPc'[i] # itPc[i])
                 => itPc'[i] = "skipped"]_vars

\* A run in which cancel() was called while one call was in flight and
\* another admitted item was skipped at its checkpoint.
C11_Witness ==
  /\ cancelled
  /\ \E i, j \in Items : itPc[i] = "suggesting" /\ itPc[j] = "skipped"

\* ---------------------------------------------------------------------
\* C13: the gate admits in submission order.  The queue of the semaphore
\* holds exactly the waiting items, oldest submission first, and no item
\* holds or has held a slot while an item submitted before it still
\* waits: a freed slot always goes to the longest-waiting item.
C13_FifoAdmission ==
  bPc \in {"pending", "resolved", "rejected"} =>
    /\ \A k \in 1..(Len(semaphore.queue) - 1) :
         semaphore.queue[k] < semaphore.queue[k + 1]
    /\ Range(semaphore.queue) = {i \in Items : itPc[i] = "queued"}
    /\ \A i, j \in Items :
         (i < j /\ itPc[j] # "queued") => itPc[i] # "queued"

\* A freed slot was handed to a waiter while a later item still waits.
C13_Witness ==
  \E i, j, k \in Items :
    /\ i < j /\ j < k
    /\ itPc[i] \in EndedPcs
    /\ itPc[j] \in HoldingPcs
    /\ itPc[k] = "queued"
    /\ semaphore.limit = 1

\* The items that have called suggestTags in this run.
CalledItems == {i \in Items : dispatch.paced[i] # "none"}

\* ---------------------------------------------------------------------
\* C14: with a positive interval, of the items that called the suggestion
\* engine exactly one, the first to call it, did so without the pacing
\* sleep; every other one slept the interval before its call.
C14_AllButFirstPaced ==
  (bPc \in {"pending", "resolved", "rejected"} /\ interval > 0) =>
    /\ CalledItems = {i \in Items : itPc[i] \in StartedPcs}
    /\ CalledItems # {} =>
         /\ dispatch.first \in CalledItems
         /\ dispatch.paced[dispatch.first] = "direct"
         /\ \A i \in CalledItems \ {dispatch.first} :
              dispatch.paced[i] = "slept"

\* Three items called the engine: the first directly, two after the sleep.
C14_Witness ==
  /\ interval > 0
  /\ Cardinality(CalledItems) = 3
  /\ Cardinality({i \in CalledItems : dispatch.paced[i] = "slept"}) = 2

\* ---------------------------------------------------------------------
\* C20: for every record of the run with no error and at least one
\* suggested tag: without a confirmation hook the applied tags are the
\* suggested tags; with a hook they are exactly what the hook returned;
\* the applied tags, and nothing else, were added to the item and saved,
\* so that a hook that returns none leaves the item as it was and the
\* record's appliedTags empty.
C20_AppliedFollowsHook ==
  \A k \in 1..Len(Results) :
    LET rec == Results[k]
        i == rec.itemID
    IN (rec.error = "" /\ Len(rec.suggestedTags) > 0) =>
         /\ ~bConfig.confirmFn => rec.appliedTags = rec.suggestedTags
         /\ bConfig.confirmFn => rec.appliedTags = itTagsToApply[i]
         /\ savedStore[i] = InitialTags[i] \cup Range(rec.appliedTags)
         /\ tagStore[i] = savedStore[i]

\* The hook accepted a part of one suggestion and declined another.
C20_Witness ==
  /\ bConfig.confirmFn
  /\ \E k, l \in 1..Len(Results) :
       /\ Len(Results[k].suggestedTags) = 2
       /\ Len(Results[k].appliedTags) = 1
       /\ savedStore[Results[k].itemID] = Range(Results[k].appliedTags)
       /\ Len(Results[l].suggestedTags) = 2
       /\ Results[l].appliedTags = <<>>
       /\ savedStore[Results[l].itemID] = {}

\* ---------------------------------------------------------------------
\* C12: once every submitted item has ended (finished, skipped at a
\* checkpoint, or left its call by an exception of the hook or of
\* applyTags, all of which are calls that terminated) the promise of
\* processBatch is resolved; and it is resolved only then.
C12_ResolvesWhenAllEnded ==
  /\ (bPc \in {"pending", "resolved", "rejected"}
        /\ \A i \in Items : itPc[i] \in EndedPcs) => bPc = "resolved"
  /\ bPc = "resolved" => \A i \in Items : itPc[i] \in EndedPcs

\* The call met a failure of one of its four sources.
SuggestFailed ==
  \/ sgEnv.vocab = "throws"
  \/ sgEnv.text = "throws"
  \/ sgCompletion.kind = "error"
  \/ (sgCompletion.kind = "content" /\ ~sgCompletion.valid)

\* ---------------------------------------------------------------------
\* C16: whenever the vocabulary lookup, the text extraction, the
\* completion client or JSON.parse failed, suggestTags has returned (not
\* raised) a record for the item it was given whose error field holds a
\* message and whose suggestedTags and appliedTags are empty.
C16_FailuresBecomeErrorRecords ==
  (sgPc = "returned" /\ SuggestFailed) =>
    /\ sgRecord.error \notin {"", NoRecord.error}
    /\ sgRecord.itemID = sgInput.item.id
    /\ sgRecord.suggestedTags = <<>>
    /\ sgRecord.appliedTags = <<>>

\* The completion made for a child attachment was not JSON.
C16_Witness ==
  /\ sgPc = "returned"
  /\ sgInput.item = ChildAttachment
  /\ sgEnv = [vocab |-> "ok", text |-> "ok"]
  /\ sgCompletion.kind = "content" /\ ~sgCompletion.valid
  /\ sgRecord = ErrorRecord(ChildAttachment.id, "JSON.parse failed")

\* ---------------------------------------------------------------------
\* C17: a response that is not valid JSON, or a JSON object that lacks its
\* tags or its reasoning field, makes suggestTags return a record with an
\* error.
C17_MalformedResponseIsError ==
  (/\ sgPc = "returned"
   /\ sgCompletion.kind = "content"
   /\ (~sgCompletion.valid \/ ~sgCompletion.hasTags
         \/ ~sgCompletion.hasReasoning)) =>
    sgRecord.error \notin {"", NoRecord.error}

\* The filtered vocabulary of the call's library.
FilteredVocabulary == getAvailableTags(sgInput.libraryTags, sgInput.prefixPref)

\* The precondition that the call's input fails ("" when none): the item
\* is a standalone attachment, the target is not a regular item, or the
\* vocabulary that was looked up is empty in existing-only mode.
FailedPrecondition ==
  IF sgInput.item.kind = "attachment" /\ sgInput.item.parentID = 0
    THEN "Standalone attachment without parent"
  ELSE IF TargetOf(sgInput.item).kind # "regular"
    THEN "Not a regular item"
  ELSE IF /\ sgEnv.vocab = "ok"
          /\ sgInput.tagSource = "existing"
          /\ FilteredVocabulary = <<>>
    THEN "No available tags found in library"
  ELSE ""

\* ---------------------------------------------------------------------
\* C18: a call whose input fails a precondition returns an error record
\* naming it without having sent a completion request; in allow-new mode
\* an empty vocabulary fails none, and the request is sent (unless the
\* lookup or the extraction threw).
C18_PreconditionsBeforeNetwork ==
  sgPc \in {"calling", "returned"} =>
    /\ FailedPrecondition # "" =>
         /\ sgPc = "returned"
         /\ sgSent = 0
         /\ sgRecord.error = FailedPrecondition
         /\ sgRecord.suggestedTags = <<>>
    /\ (/\ TargetCheck(sgInput.item) = NoRecord
        /\ sgInput.tagSource = "new"
        /\ sgEnv.vocab = "ok" /\ FilteredVocabulary = <<>>
        /\ sgEnv.text # "throws") => sgSent = 1

\* Existing-only mode in a library whose only tag has the excluded prefix.
C18_Witness ==
  /\ sgPc = "returned"
  /\ sgInput.item = RegularItem
  /\ sgInput.tagSource = "existing"
  /\ sgInput.libraryTags = {TagHidden}
  /\ sgSent = 0
  /\ sgRecord.error = "No available tags found in library"

\* The position of the first occurrence of x in q.
FirstIndex(q, x) == CHOOSE k \in 1..Len(q) : q[k] = x /\ \A j \in 1..(k - 1) : q[j] # x

\* ---------------------------------------------------------------------
\* C19: the suggestedTags of a record built from a response with a tags
\* list are exactly the distinct tags of that list that the target item
\* does not carry, each once, in the order of their first occurrence in
\* the list.
C19_PostFilterExact ==
  (sgPc = "returned" /\ sgRecord.error = "" /\ sgCompletion.hasTags) =>
    LET out == sgRecord.suggestedTags
        tags == sgCompletion.tags
    IN /\ \A k, l \in 1..Len(out) : out[k] = out[l] => k = l
       /\ Range(out) = Range(tags) \ sgInput.currentTags
       /\ \A k, l \in 1..Len(out) :
            k < l => FirstIndex(tags, out[k]) < FirstIndex(tags, out[l])

\* The item carries "a"; the model answers ["a", "b", "b"]; the record
\* suggests ["b"].
C19_Witness ==
  /\ sgPc = "returned"
  /\ sgInput.currentTags = {TagA}
  /\ sgCompletion.hasTags
  /\ sgCompletion.tags = <<TagA, TagB, TagB>>
  /\ sgRecord.error = ""
  /\ sgRecord.suggestedTags = <<TagB>>

\* The error text names the structured-output capability.
RejectsSchema(e) ==
  e.kind = "error" /\ e.message \cap {"response_format", "json_schema",
                                        "not supported"} # {}

\* ---------------------------------------------------------------------
\* C15: the first chatCompletion call carries the request's schema; a
\* second call is made exactly when the first one failed with an error
\* that mentions response_format, json_schema or "not supported", and
\* never a third; the second call's body has no response_format and its
\* last message, a user message, ends with the JSON instruction; any
\* other error of the first call, and any error of the second call, is
\* what the wrapper throws.
C15_FallbackOnceOnSchemaError ==
  fbPc \in {"first", "fallback", "returned", "thrown"} =>
    /\ Len(fbCalls) \in {1, 2}
    /\ fbCalls[1] =
         [body |-> [messages |-> <<InitialHeap("user")[SystemMsgRef],
                                   [role |-> fbCalls[1].body.messages[2].role,
                                    content |-> <<"prompt">>]>>,
                    response_format |-> fbRequest.response_format],
          useStructuredOutput |-> TRUE]
    /\ fbPc = "first" => Len(fbCalls) = 1
    /\ fbPc # "first" =>
         (Len(fbCalls) = 2 <=> RejectsSchema(fbFirstError))
    /\ fbPc = "fallback" => Len(fbCalls) = 2
    /\ Len(fbCalls) = 2 =>
         /\ ~fbCalls[2].body.response_format
         /\ ~fbCalls[2].useStructuredOutput
         /\ fbCalls[2].body.messages[1] = fbCalls[1].body.messages[1]
         /\ fbCalls[2].body.messages[2].role = "user" =>
              fbCalls[2].body.messages[2].content =
                <<"prompt", JsonInstruction>>
    /\ (fbPc = "thrown" /\ Len(fbCalls) = 1) =>
         /\ fbOutcome = fbFirstError
         /\ fbOutcome.kind = "error"
    /\ (fbPc = "thrown" /\ Len(fbCalls) = 2) => fbOutcome.kind = "error"
    /\ (fbPc = "returned" /\ Len(fbCalls) = 1) => fbFirstError = NoCallError

\* The provider rejected json_schema and the fallback call failed with an
\* authentication error, which the wrapper threw.
C15_Witness ==
  /\ fbPc = "thrown"
  /\ Len(fbCalls) = 2
  /\ fbFirstError = CallError({"json_schema"})
  /\ fbOutcome = CallError({"HTTP 401"})
  /\ fbCalls[1].body.response_format
  /\ fbCalls[2].body.messages[2].content = <<"prompt", JsonInstruction>>

\* The records of the run's results that belong to item i.
RecordsOf(i) == {k \in 1..Len(Results) : Results[k].itemID = i}

\* ---------------------------------------------------------------------
\* C21: when every item of a run that was never cancelled has ended
\* (with tags, with none, or by a failure of its suggestion, confirmation
\* or commit step) the promise is resolved and the report holds exactly
\* one record for every submitted item.
C21_OneRecordPerItem ==
  (/\ bPc \in {"pending", "resolved", "rejected"}
   /\ ~cancelled
   /\ \A i \in Items : itPc[i] \in EndedPcs) =>
    /\ bPc = "resolved"
    /\ \A i \in Items : Cardinality(RecordsOf(i)) = 1
    /\ Len(Results) = progress.total

\* The seconds a retry-after header of the model asks for.
HeaderSeconds(ra) == CASE ra = <<2>> -> 2 [] ra = <<1, 0>> -> 10

\* ---------------------------------------------------------------------
\* C22: after a 429 response with a retry-after header of N seconds the
\* call has waited N*1000 ms, as the wait that follows that request, and
\* only then goes on; and a call whose only wait is the 2000 ms of a first
\* 429 with retry-after "2" and whose next response is a 200 has returned
\* after two requests.
C22_RetryAfterHonoured ==
  /\ (lastResponse.status = 429 /\ lastResponse.retryAfter # NoHeader) =>
       /\ ccPc \in {"sleeping", "fetching", "thrown"}
       /\ Len(waits) = requests - (IF ccPc = "fetching" THEN 1 ELSE 0)
       /\ waits[Len(waits)] = HeaderSeconds(lastResponse.retryAfter) * 1000
  /\ (waits = <<2000>> /\ lastResponse = Response(200, NoHeader, TRUE)) =>
       /\ ccPc = "returned"
       /\ requests = 2
       /\ raised = NoError

\* 429 with retry-after "2", then 200: returned after one retry.
C22_Witness ==
  /\ ccPc = "returned"
  /\ requests = 2
  /\ waits = <<2000>>
  /\ lastResponse = Response(200, NoHeader, TRUE)

\* The delay before the n-th retry that the backoff rule gives.
ExpectedDelay(n) ==
  IF 1000 * 2^(n - 1) <= 30000 THEN 1000 * 2^(n - 1) ELSE 30000

\* ---------------------------------------------------------------------
\* C23: when an attempt ends with a 429 without retry-after, a 5xx or a
\* network (or body) failure and the call waits, that wait is the one
\* before retry n = attempt + 1 and lasts min(1000 * 2^(n-1), 30000) ms;
\* a sequence of such waits is non-decreasing.
C23_BackoffDelays ==
  [][(ccPc = "fetching" /\ ccPc' = "sleeping"
        /\ lastResponse'.retryAfter = NoHeader) =>
       LET n == Len(waits')
       IN /\ n = attempt + 1
          /\ waits' = Append(waits, ExpectedDelay(n))
          /\ (\A k \in 1..n : waits'[k] = ExpectedDelay(k)) =>
               \A k \in 1..(n - 1) : waits'[k] <= waits'[k + 1]]_vars

\* Six failures in a row: the sixth wait is capped at 30000 ms.
C23_Witness ==
  /\ ccPc = "sleeping"
  /\ waits = <<1000, 2000, 4000, 8000, 16000, 30000>>

\* ---------------------------------------------------------------------
\* C24: with concurrency limit 1 and no cancellation the items end in
\* submission order: no item has ended before an earlier one, results
\* holds the records in submission order, the k-th snapshot reports
\* current = k, and the final report has the records of all items in
\* order, current = total = the number of items and cancelled = false.
C24_SequentialInOrder ==
  (/\ bPc \in {"pending", "resolved", "rejected"}
   /\ semaphore.limit = 1
   /\ ~cancelled) =>
    /\ \A i, j \in Items : (i < j /\ itPc[j] \in EndedPcs) => itPc[i] \in EndedPcs
    /\ \A k \in 1..(Len(Results) - 1) :
         Results[k].itemID < Results[k + 1].itemID
    /\ \A k \in 1..Len(snapshots) : snapshots[k].current = k
    /\ bPc = "resolved" =>
         /\ Len(Results) = bConfig.n
         /\ \A k \in 1..Len(Results) : Results[k].itemID = k
         /\ progress.current = bConfig.n
         /\ progress.total = bConfig.n
         /\ ~progress.cancelled

\* Three items went through a single slot and the run resolved.
C24_Witness ==
  /\ bPc = "resolved"
  /\ semaphore.limit = 1
  /\ ~cancelled
  /\ bConfig.n = MaxItems
  /\ Len(snapshots) = MaxItems
  /\ \E k \in 1..Len(Results) : Len(Results[k].appliedTags) > 0

\* The items whose processItem call has ended, per the given positions.
EndedIn(pcs) == {i \in 1..MaxItems : pcs[i] \in EndedPcs}

\* ---------------------------------------------------------------------
\* C25: onProgress is called exactly once for each item that ends, in the
\* step in which it ends and in no other step; the snapshots already
\* delivered stay in place, and the new one reports as current its own
\* position in the sequence of calls: 1, 2, 3, ...
C25_SnapshotPerCompletion ==
  [][LET ending == EndedIn(itPc') \ EndedIn(itPc)
     IN /\ Cardinality(ending) <= 1
        /\ EndedIn(itPc) \subseteq EndedIn(itPc')
        /\ Len(snapshots') = Len(snapshots) + Cardinality(ending)
        /\ \A k \in 1..Len(snapshots) :
             snapshots'[k].current = snapshots[k].current
        /\ ending # {} =>
             /\ snapshots'[Len(snapshots')].current = Len(snapshots')
             /\ Len(snapshots') = Cardinality(EndedIn(itPc'))]_vars

\* Item 2 finished first: the first snapshot (current = 1) shows its
\* record, while item 1 is still at work.
C25_Witness ==
  /\ Len(snapshots) = 1
  /\ snapshots[1].current = 1
  /\ itPc[2] = "done"
  /\ itPc[1] \in HoldingPcs
  /\ Len(Results) = 1 /\ Results[1].itemID = 2

\* ---------------------------------------------------------------------
\* C26: a returned suggestion record carries at most maxTags suggested
\* tags, whatever tags list the model's response holds.
C26_AtMostMaxTags ==
  sgPc = "returned" => Len(sgRecord.suggestedTags) <= MaxTagsPref

\* ---------------------------------------------------------------------
\* C27: the post-filter is idempotent: filtering the suggested tags of a
\* returned record again, against the same current tags, gives the same
\* list.
C27_PostFilterIdempotent ==
  (sgPc = "returned" /\ sgRecord.error = "") =>
    PostFilter(sgRecord.suggestedTags, sgInput.currentTags)
      = sgRecord.suggestedTags

\* A response with a repeated tag and a tag the item already carries.
C27_Witness ==
  /\ sgPc = "returned"
  /\ sgRecord.error = ""
  /\ sgInput.currentTags = {TagA}
  /\ sgCompletion.tags = <<TagB, TagA, TagB>>
  /\ sgRecord.suggestedTags = <<TagB>>

\* ---------------------------------------------------------------------
\* C28: applying the same tags again changes nothing: once the first
\* applyTags call has ended, the item's tags stay as that call left them
\* through every further call, and once a save has persisted them the
\* store stays as that save left it.
C28_ApplyIdempotent ==
  apFirst.ended =>
    /\ apItemTags = apFirst.item
    /\ apFirst.saved => apStore = apFirst.store

\* Two applyTags calls with ["a", "b"] on an item that carried "a": both
\* saved, and the item carries "a", "b" once each.
C28_Witness ==
  /\ apCalls = 2
  /\ apPc = "idle"
  /\ apFirst.saved
  /\ apTags = <<TagA, TagB>>
  /\ apItemTags = <<TagA, TagB>>
  /\ apStore = <<TagA, TagB>>
  /\ apRecord.suggestedTags = <<TagB>>

\* ---------------------------------------------------------------------
\* C29: the store changes, and saveTx() is called, only by an applyTags
\* call that was given at least one tag, once per call; an applyTags call
\* with an empty list ends at once with no save and with item and store
\* as they were; and a suggestTags call leaves item and store untouched.
C29_SaveOnlyWithTags ==
  [][/\ (apStore' # apStore \/ apSaves' # apSaves) =>
          /\ apPc = "saving"
          /\ Len(apTags) > 0
          /\ apSaves' = apSaves + 1
          /\ apCalls' = apCalls + 1
     /\ apSaves' <= apCalls'
     /\ (apPc = "idle" /\ apRecord' = apRecord /\ apTags = <<>>) =>
          /\ apPc' = "idle"
          /\ apCalls' = apCalls + 1
          /\ apItemTags' = apItemTags
          /\ apStore' = apStore
          /\ apSaves' = apSaves
     /\ apRecord' # apRecord =>
          /\ apItemTags' = apItemTags
          /\ apStore' = apStore
          /\ apSaves' = apSaves]_vars

\* applyTags was called with no tags on an item that carries one: the
\* call has ended and nothing was saved.
C29_Witness ==
  /\ apCalls = 1
  /\ apTags = <<>>
  /\ apSaves = 0
  /\ apItemTags = <<TagA>>
  /\ apStore = <<TagA>>
  /\ apRecord.error = "" /\ apRecord.itemID = RegularItem.id

\* ---------------------------------------------------------------------
\* The position of processItem in its one pass over an item: queued for a
\* slot, admitted, pacing, suggesting, asking the hook, applying, ended.
PcRank(pc) ==
  CASE pc = "none" -> 0
    [] pc = "queued" -> 1
    [] pc = "admitted" -> 2
    [] pc = "sleeping" -> 3
    [] pc = "suggesting" -> 4
    [] pc = "confirming" -> 5
    [] pc = "applying" -> 6
    [] pc \in EndedPcs -> 7

\* The hook was asked about item i and returned no tags: the record with
\* no error and some suggested tags was pushed with nothing to apply.
Declined(i) ==
  /\ bConfig.confirmFn
  /\ itPc[i] = "done"
  /\ itResult[i].error = ""
  /\ Len(itResult[i].suggestedTags) > 0
  /\ itTagsToApply[i] = <<>>

\* C30: processItem passes over an item once and never goes back, so that
\* no item is suggested for or asked about twice; the confirmation hook
\* is invoked only as suggestTags returns a record with no error and at
\* least one suggested tag; the step in which the hook returns no tags
\* ends the item with its tags untouched and applyTags not called; and a
\* declined item never moves, changes its record or gets a tag again.
C30_HookOnceDeclineFinal ==
  [][\A i \in 1..MaxItems :
       /\ itPc'[i] # itPc[i] => PcRank(itPc'[i]) > PcRank(itPc[i])
       /\ (itPc'[i] = "confirming" /\ itPc[i] # "confirming") =>
            /\ itPc[i] = "suggesting"
            /\ itResult'[i].error = ""
            /\ Len(itResult'[i].suggestedTags) > 0
       /\ (itPc[i] = "confirming" /\ itPc'[i] # "confirming"
             /\ itTagsToApply'[i] = <<>>) =>
            /\ itPc'[i] = "done"
            /\ tagStore'[i] = tagStore[i]
            /\ savedStore'[i] = savedStore[i]
            /\ itResult'[i].appliedTags = <<>>
       /\ Declined(i) =>
            /\ itPc'[i] = itPc[i]
            /\ itResult'[i] = itResult[i]
            /\ itTagsToApply'[i] = itTagsToApply[i]
            /\ tagStore'[i] = tagStore[i]
            /\ savedStore'[i] = savedStore[i]]_vars

\* The run resolved with one item declined by the hook, its tags as they
\* were, and another item's suggestion accepted and applied.
C30_Witness ==
  /\ bPc = "resolved"
  /\ \E i, j \in Items :
       /\ Declined(i)
       /\ savedStore[i] = InitialTags[i]
       /\ itResult[i].appliedTags = <<>>
       /\ itPc[j] = "done"
       /\ itResult[j].appliedTags # <<>>

\* ---------------------------------------------------------------------
\* C31: in a run whose requestInterval preference is 0, no item waits a
\* pacing delay before its suggestion call: none is asleep at line 171
\* and none was dispatched after a sleep.
C31_ZeroIntervalNoPacing ==
  (bPc # "idle" /\ bConfig.intervalPref = 0) =>
    \A i \in Items :
      /\ itPc[i] # "sleeping"
      /\ dispatch.paced[i] # "slept"

\* ---------------------------------------------------------------------
\* The items that leave the queue of the semaphore in a step.
Dequeued == {i \in Range(semaphore.queue) : i \notin Range(semaphore'.queue)}

\* C32: at every suspension point 0 <= active <= limit, active is the
\* number of items that acquired a slot and have not released it, and a
\* waiter is queued only while active = limit; and every step that
\* releases a slot takes at most one waiter off the queue, the one at its
\* head, and admits that one and no other.
C32_GateAccounting ==
  /\ [](/\ 0 <= semaphore.active
        /\ semaphore.active <= semaphore.limit
        /\ semaphore.active = Cardinality(SlotHolders)
        /\ semaphore.queue # <<>> => semaphore.active = semaphore.limit
        /\ Range(semaphore.queue) = {i \in Items : itPc[i] = "queued"})
  /\ [][bPc # "idle" =>
          /\ Cardinality(Dequeued) <= 1
          /\ \A i \in Dequeued :
               /\ i = Head(semaphore.queue)
               /\ semaphore'.queue = Tail(semaphore.queue)
               /\ itPc'[i] = "admitted"
          /\ \A i \in Items :
               (itPc[i] = "queued" /\ itPc'[i] # "queued") => i \in Dequeued]_vars

\* With one slot and three items: the first item has ended and released
\* its slot to the second, the third is still queued.
C32_Witness ==
  /\ semaphore.limit = 1
  /\ semaphore.active = 1
  /\ Len(semaphore.queue) = 1
  /\ \E i, j \in Items :
       /\ itPc[i] \in EndedPcs
       /\ itPc[j] \in HoldingPcs
       /\ j # dispatch.first

\* ---------------------------------------------------------------------
\* The items whose processItem call ends in a step while holding a slot.
Exits == {i \in Items : itPc[i] \in HoldingPcs /\ itPc'[i] \in EndedPcs}

\* The slots taken or waited for.
Demand(sem) == sem.active + Len(sem.queue)

\* C33: an item that holds a slot gives it up only by ending, and the
\* step in which it ends (with a record, at a cancellation checkpoint, or
\* by an exception of the hook or of applyTags) releases one slot: to the
\* head waiter if there is one, otherwise back to the gate; no other step
\* of the run touches the gate and an ended item never moves again, so
\* the release happens exactly once. Once every item has ended, and
\* whenever the promise has resolved, no slot is held and nobody waits.
C33_SlotReleasedOnce ==
  /\ [][bPc # "idle" =>
          /\ Cardinality(Exits) <= 1
          /\ Exits # {} =>
               /\ Demand(semaphore') = Demand(semaphore) - 1
               /\ semaphore'.active = Cardinality({i \in Items :
                                                     itPc'[i] \in HoldingPcs})
          /\ Exits = {} => semaphore' = semaphore
          /\ \A i \in Items :
               /\ itPc[i] \in EndedPcs => itPc'[i] = itPc[i]
               /\ (itPc[i] \in HoldingPcs /\ itPc'[i] \notin HoldingPcs) =>
                    i \in Exits]_vars
  /\ []((bPc # "idle" /\ \A i \in Items : itPc[i] \in EndedPcs) =>
          semaphore.active = 0 /\ semaphore.queue = <<>>)
  /\ [](bPc = "resolved" =>
          semaphore.active = 0 /\ semaphore.queue = <<>>)

\* Three items have ended on three different paths (a record pushed, an
\* exception, a cancellation checkpoint) and the gate is empty.
C33_Witness ==
  /\ semaphore.active = 0
  /\ semaphore.queue = <<>>
  /\ \E i, j, k \in Items :
       /\ itPc[i] = "done"
       /\ itPc[j] = "failed"
       /\ itPc[k] \in {"skipped", "dropped"}

\* ---------------------------------------------------------------------
\* Item j was in its pacing sleep as the call before its own was
\* dispatched.  j's sleep of one interval had begun before that call, so
\* j's call followed it by less than one interval.
CloseCall(j) ==
  /\ j # 0
  /\ callLog.close = j
  /\ dispatch.paced[j] = "slept"

\* C34: pacing is per item.  An item starts its pacing sleep only once,
\* on admission, when some call has been counted before; the dispatch of
\* another item's call neither wakes nor delays a sleeping item; and an
\* item that wakes dispatches its own call in that step (unless the run
\* was cancelled), also when other calls were dispatched while it slept.
C34_PacingPerItem ==
  [][\A i \in Items :
       /\ (itPc'[i] = "sleeping" /\ itPc[i] # "sleeping") =>
            /\ itPc[i] = "admitted"
            /\ requestCount > 0
            /\ interval > 0
       /\ (itPc[i] = "sleeping" /\ itPc'[i] # "sleeping") =>
            IF cancelled
              THEN itPc'[i] = "skipped"
              ELSE /\ itPc'[i] = "suggesting"
                   /\ dispatch'.paced[i] = "slept"
                   /\ callLog'.asleep =
                        {j \in Items \ {i} : itPc[j] = "sleeping"}
       /\ (itPc[i] = "sleeping"
             /\ \E k \in Items \ {i} :
                  itPc[k] # "suggesting" /\ itPc'[k] = "suggesting") =>
            itPc'[i] = "sleeping"]_vars

\* Two items slept at the same time and both calls were dispatched, the
\* second while no further interval had passed since the first.
C34_Witness ==
  /\ semaphore.limit >= 2
  /\ interval > 0
  /\ \E i, j \in Items :
       /\ i # j
       /\ CloseCall(j)
       /\ dispatch.paced[i] = "slept"
       /\ itPc[i] \in StartedPcs
       /\ itPc[j] \in StartedPcs

\* ---------------------------------------------------------------------
\* The items whose suggestTags call returns a record without error in a
\* step.
Answered ==
  {i \in Items : /\ itPc[i] = "suggesting"
                 /\ itPc'[i] # "suggesting"
                 /\ itResult'[i].error = ""}

\* C35: the record suggestTags returns for an entry carries no tag that
\* its target item has at that moment, in memory or saved, whoever put
\* it there; so no tag that an entry of the batch which finished earlier
\* applied to the same target is suggested again for a later entry.
C35_FilterAtCallTime ==
  [][\A i \in Answered :
       LET rec == itResult'[i]
           suggested == Range(rec.suggestedTags)
       IN /\ rec.itemID = TargetOf(BatchItem(i)).id
          /\ suggested \cap tagStore[rec.itemID] = {}
          /\ suggested \cap savedStore[rec.itemID] = {}
          /\ \A k \in 1..Len(Results) :
               Results[k].itemID = rec.itemID =>
                 suggested \cap Range(Results[k].appliedTags) = {}]_vars

\* Two entries of a batch tagged the same item: the earlier record
\* applied the first of the two tags the model names, and the later
\* record, answered with both tags, suggests the second only.
C35_Witness ==
  \E k, l \in 1..Len(Results) :
    /\ k < l
    /\ Results[k].itemID = Results[l].itemID
    /\ Results[k].appliedTags = <<TagA>>
    /\ Results[l].error = ""
    /\ Results[l].suggestedTags = <<TagB>>
    /\ savedStore[Results[k].itemID] = {TagA}

\* ---------------------------------------------------------------------
\* C36: once the promise of processBatch has resolved, no step changes a
\* field of the report it resolved with (the progress object and its
\* results array); a run that resolved with cancelled = false keeps it.
C36_ReportFinal ==
  [][bPc = "resolved" =>
       /\ progress' = progress
       /\ arrays'[progress.results] = arrays[progress.results]]_vars

\* ---------------------------------------------------------------------
\* C37: once cancel() has been called no applyTags call is started, for
\* no item, with or without a confirmation hook.
C37_NoCommitAfterCancel ==
  [][cancelled =>
       \A i \in Items : itPc'[i] = "applying" => itPc[i] = "applying"]_vars

\* ---------------------------------------------------------------------
\* C38: chatCompletion sleeps only between two attempts: no sleep is
\* begun after the response or failure of the final permitted attempt,
\* and a call that raised has slept fewer times than it sent requests.
C38_NoWaitAfterFinalAttempt ==
  /\ ccPc = "sleeping" => attempt < maxRetries
  /\ ccPc = "thrown" => Len(waits) < requests

\* ---------------------------------------------------------------------
\* C39: at every moment, for every record in the results: appliedTags is
\* non-empty only if the record has no error and applyTags was called
\* for its item with exactly those tags and its saveTx resolved (the
\* tags are on the item and saved); a record with an error has no
\* suggested and no applied tags, and its item was left as it was.  And
\* at every step: appliedTags is written only as applyTags returns, with
\* the list it was called with, and only a record without error leads to
\* the confirmation hook or to applyTags.
C39_AppliedOnlyAfterCommit ==
  /\ [](\A k \in 1..Len(Results) :
          LET rec == Results[k]
              i == rec.itemID
          IN /\ rec.appliedTags # <<>> =>
                  /\ rec.error = ""
                  /\ itPc[i] = "done"
                  /\ rec.appliedTags = itTagsToApply[i]
                  /\ Range(rec.appliedTags) \subseteq tagStore[i]
                  /\ Range(rec.appliedTags) \subseteq savedStore[i]
             /\ rec.error # "" =>
                  /\ rec.suggestedTags = <<>>
                  /\ rec.appliedTags = <<>>
                  /\ itTagsToApply[i] = <<>>
                  /\ tagStore[i] = InitialTags[i]
                  /\ savedStore[i] = InitialTags[i])
  /\ [][\A i \in Items :
          /\ itResult'[i].appliedTags # itResult[i].appliedTags =>
               /\ itPc[i] = "applying"
               /\ itPc'[i] = "done"
               /\ itResult'[i].appliedTags = itTagsToApply[i]
               /\ savedStore'[i] = tagStore[i]
          /\ (itPc'[i] \in {"confirming", "applying"}
                /\ itPc'[i] # itPc[i]) =>
               itResult'[i].error = ""]_vars

\* A run whose results hold an error record, its item untouched, and a
\* record whose tags were applied and saved.
C39_Witness ==
  \E k, l \in 1..Len(Results) :
    /\ Results[k].error \notin {"", NoRecord.error}
    /\ Results[k].appliedTags = <<>>
    /\ Results[l].appliedTags # <<>>
    /\ Range(Results[l].appliedTags) \subseteq savedStore[Results[l].itemID]

=============================================================================
